---- MODULE Spec2Model ----
(***************************************************************************)
(* Model of profit_calculator.py: the per-asset FIFO queues of acquisition *)
(* lots (queues), the realized-gain records (total_profits), the income    *)
(* events (other_income), the four handlers main dispatches to (on_buy,    *)
(* on_sell, on_income and on_convert) and print_reports.                   *)
(*                                                                         *)
(* Spec is main's run over the rows of a file, a handler call to a step;   *)
(* SpecLoop is the same run with the loop of on_sell taken pass by pass;   *)
(* SpecTerm builds TransactionRecords on their own.                        *)
(*                                                                         *)
(* Amounts are decimal.Decimal values.  A Decimal is modelled by the       *)
(* integer number of 1/Scale units it holds, and every arithmetic result   *)
(* is rounded to DecPrec significant digits, half to even, as the default  *)
(* decimal context does (with 28 digits there).  Timestamps are whole      *)
(* days.                                                                   *)
(***************************************************************************)
EXTENDS Integers, Sequences, FiniteSets, TLC

\* Number of transactions main processes in one run.
MaxTxns == 3

\* Significant digits of the decimal context (28 in the program).
DecPrec == 3

\* Amounts are held in units of 1/Scale.
Scale == 10 ^ 4

----------------------------------------------------------------------------
\* decimal.Decimal arithmetic

Abs(n) == IF n < 0 THEN 0 - n ELSE n

Sgn(n) == IF n < 0 THEN 0 - 1 ELSE 1

RECURSIVE Digits(_)
Digits(n) == IF n < 10 THEN 1 ELSE 1 + Digits(n \div 10)

\* The value i + r/d (0 <= r < d) rounded to a multiple of u = 10^n, n > 0,
\* ties to the even digit (ROUND_HALF_EVEN).
RoundAt(i, r, d, u) ==
    LET k == i \div u
        rest == i % u
        up == \/ 2 * rest > u
              \/ 2 * rest = u /\ (r > 0 \/ k % 2 = 1)
    IN (IF up THEN k + 1 ELSE k) * u

\* The value i + r/d (0 <= r < d), i of n digits, rounded to DecPrec
\* significant digits, ties to the even digit.
RoundDigits(i, r, d, n) ==
    IF n > DecPrec
    THEN RoundAt(i, r, d, 10 ^ (n - DecPrec))
    ELSE IF 2 * r > d \/ (2 * r = d /\ i % 2 = 1) THEN i + 1 ELSE i

\* The value i + r/d (0 <= r < d) rounded to DecPrec significant digits;
\* i is taken as a value, once.
RoundMag(i, r, d) ==
    CHOOSE v \in {RoundDigits(x, r, d, Digits(x)) : x \in {i}} : TRUE

DecAdd(a, b) == Sgn(a + b) * RoundMag(Abs(a + b), 0, 1)

DecSub(a, b) == Sgn(a - b) * RoundMag(Abs(a - b), 0, 1)

\* a * b: the exact product, then the context's rounding.
DecMul(a, b) ==
    LET x == Abs(a)
        y == Abs(b)
        lo == x * (y % Scale)
        i == x * (y \div Scale) + lo \div Scale
    IN Sgn(a) * Sgn(b) * RoundMag(i, lo % Scale, Scale)

\* a / b for b # 0: the exact quotient, then the context's rounding.
DecDiv(a, b) ==
    LET x == Abs(a)
        y == Abs(b)
        lo == (x % y) * Scale
        i == (x \div y) * Scale + lo \div y
    IN Sgn(a) * Sgn(b) * RoundMag(i, lo % y, y)

----------------------------------------------------------------------------
\* The input file: the values its columns take.  Quantities are given in
\* halves of a unit, dollar amounts in whole dollars.

Qty(h) == h * (Scale \div 2)

Usd(n) == n * Scale

\* Lots of several sizes for one asset; 10 / 3 does not divide evenly.
FifoFile ==
    [assets |-> {"A"}, targets |-> {"B"},
     quantities |-> {Qty(4), Qty(6), Qty(10)}, tgt_quantities |-> {Qty(4)},
     totals |-> {Usd(10)}, days |-> {0, 1}]

\* Two assets, and conversion targets in either letter case.
CrossFile ==
    [assets |-> {"A", "B"}, targets |-> {"A", "B", "b"},
     quantities |-> {Qty(2), Qty(4)}, tgt_quantities |-> {Qty(2)},
     totals |-> {Usd(10)}, days |-> {0}]

\* Rows whose quantity is zero or negative.
InvalidFile ==
    [assets |-> {"A"}, targets |-> {"B"},
     quantities |-> {0 - Qty(2), 0, Qty(2)},
     tgt_quantities |-> {0, Qty(2)},
     totals |-> {Usd(10)}, days |-> {0}]

\* 1.0 A bought for $10, converted for $12 into 0.5 B.
ConvertFile ==
    [assets |-> {"A"}, targets |-> {"B"},
     quantities |-> {Qty(2)}, tgt_quantities |-> {Qty(1)},
     totals |-> {Usd(10), Usd(12)}, days |-> {0}]

\* 1.0 unit received at a spot price of $50, sold for $70 a day later.
IncomeFile ==
    [assets |-> {"A"}, targets |-> {"B"},
     quantities |-> {Qty(2)}, tgt_quantities |-> {Qty(2)},
     totals |-> {Usd(50), Usd(70)}, days |-> {0, 1}]

\* The rows 1.0 unit for $100 on day 0, 2.0 units for $400 on day 10 and
\* 2.5 units for $1000 on day 400, each under any transaction type.
SplitFile ==
    [assets |-> {"A"}, targets |-> {"B"},
     quantities |-> {Qty(2), Qty(4), Qty(5)}, tgt_quantities |-> {Qty(2)},
     totals |-> {Usd(100), Usd(400), Usd(1000)}, days |-> {0, 10, 400},
     rows |-> {<<0, Qty(2), Usd(100)>>, <<10, Qty(4), Usd(400)>>,
               <<400, Qty(5), Usd(1000)>>}]

\* The rows 1.0 unit for $10 on day 0, 0.5 units for $12 on day 1 and
\* 0.5 units for $50 on day 400, in the year after.
YearsFile ==
    [assets |-> {"A"}, targets |-> {"B"},
     quantities |-> {Qty(1), Qty(2)}, tgt_quantities |-> {Qty(2)},
     totals |-> {Usd(10), Usd(12), Usd(50)}, days |-> {0, 1, 400},
     rows |-> {<<0, Qty(2), Usd(10)>>, <<1, Qty(1), Usd(12)>>,
               <<400, Qty(1), Usd(50)>>}]

Files ==
    {FifoFile, CrossFile, InvalidFile, ConvertFile, IncomeFile, SplitFile,
     YearsFile}

\* -v on the command line, counted.
Verbosity == {0, 1}

----------------------------------------------------------------------------
VARIABLES
    vv,             \* verbosity
    queues,         \* asset -> sequence of lots <<ts, quantity, unit cost>>
    total_profits,  \* sequence of TransactionRecord
    other_income,   \* sequence of <<ts, asset, quantity, total>>
    csv,            \* the values of the input file's columns
    clock,          \* timestamp of the row main processed last
    ntxn,           \* rows processed so far
    pc,             \* "dispatch", "error" once a handler has raised,
                    \* "done" once the reports are printed; in SpecLoop
                    \* also "loop" inside on_sell's loop and "end" after
                    \* the last row
    last,           \* the last handler call: arguments, outcome, state before
    acquired,       \* per asset, the sum of the quantities acquired
    disposed,       \* per asset, the sum of the quantities disposed
    report,         \* what print_reports has printed
    frame           \* on_sell's locals while its loop runs step by step

vars == <<vv, queues, total_profits, other_income, csv, clock, ntxn, pc, last,
          acquired, disposed, report, frame>>

Symbols == {"A", "B", "b"}

\* str.upper()
Upper(s) == IF s = "b" THEN "B" ELSE s

Assets == {Upper(s) : s \in Symbols}

\* datetime.timedelta(weeks=52), in days
Year == 52 * 7

\* TransactionRecord with ">=" taken for ">": a holding of exactly 52 weeks
\* counts as long.
TransactionRecordLongAtAYear(asset, quantity, date_acquired, date_sold, sale_price, acq_price) ==
    [asset |-> asset, quantity |-> quantity, acq_date |-> date_acquired,
     sell_date |-> date_sold, proceeds |-> sale_price, basis |-> acq_price,
     gain |-> DecSub(sale_price, acq_price),
     islong |-> (date_sold - date_acquired) >= Year]

\* TransactionRecord.__init__
TransactionRecord(asset, quantity, date_acquired, date_sold, sale_price, acq_price) ==
    [asset |-> asset, quantity |-> quantity, acq_date |-> date_acquired,
     sell_date |-> date_sold, proceeds |-> sale_price, basis |-> acq_price,
     gain |-> DecSub(sale_price, acq_price),
     islong |-> (date_sold - date_acquired) > Year]

\* The exception Decimal division raises on a zero divisor.
DivError(total) == IF total = 0 THEN "InvalidOperation" ELSE "DivisionByZero"

\* on_buy over queues that are all one and the same list: the lot shows in
\* the queue of every asset.
OnBuySharedList(qs, ts, asset, quantity, total) ==
    IF quantity = 0
    THEN [queues |-> qs, raised |-> DivError(total)]
    ELSE [queues |->
             [a \in DOMAIN qs \cup {Upper(asset)} |->
                 Append(IF a \in DOMAIN qs THEN qs[a] ELSE <<>>,
                        <<ts, quantity, DecDiv(total, quantity)>>)],
          raised |-> "none"]

\* on_buy: the dict after the call and the exception raised, if any.
OnBuy(qs, ts, asset, quantity, total) ==
    IF vv >= 1 /\ quantity = 0
    THEN [queues |-> qs, raised |-> DivError(total)]
    ELSE LET q1 == IF asset \notin DOMAIN qs THEN qs @@ (asset :> <<>>) ELSE qs
         IN IF Upper(asset) \notin DOMAIN q1
            THEN [queues |-> q1, raised |-> "KeyError"]
            ELSE IF quantity = 0
            THEN [queues |-> q1, raised |-> DivError(total)]
            ELSE [queues |-> [q1 EXCEPT ![Upper(asset)] =
                                 Append(@, <<ts, quantity, DecDiv(total, quantity)>>)],
                  raised |-> "none"]

\* MatchHead with the write-back of the split lot left out.
MatchHeadKeepsHead(head, quantity) ==
    IF head[2] > quantity
    THEN [qty |-> quantity, quantity |-> 0, head |-> <<head>>]
    ELSE [qty |-> head[2], quantity |-> DecSub(quantity, head[2]),
          head |-> <<>>]

\* MatchHead with ">" taken for "<=": a lot larger than the request is
\* drawn whole.
MatchHeadWholeLot(head, quantity) ==
    IF head[2] > quantity
    THEN [qty |-> head[2], quantity |-> 0, head |-> <<>>]
    ELSE [qty |-> head[2], quantity |-> DecSub(quantity, head[2]),
          head |-> <<>>]

\* MatchHead with ">=" taken for ">": a lot equal to the request is split,
\* and stays in the queue with nothing left in it.
MatchHeadSplitsEqualLot(head, quantity) ==
    IF head[2] >= quantity
    THEN [qty |-> quantity, quantity |-> 0,
          head |-> << <<head[1], DecSub(head[2], quantity), head[3]>> >>]
    ELSE [qty |-> head[2], quantity |-> DecSub(quantity, head[2]),
          head |-> <<>>]

\* One pass of on_sell's loop body over the head lot: the quantity drawn,
\* the quantity still to satisfy, and what stays at the head of the queue.
MatchHead(head, quantity) ==
    IF head[2] > quantity
    THEN [qty |-> quantity, quantity |-> 0,
          head |-> << <<head[1], DecSub(head[2], quantity), head[3]>> >>]
    ELSE [qty |-> head[2], quantity |-> DecSub(quantity, head[2]),
          head |-> <<>>]

\* Fragment with the basis of the whole lot, its quantity times its unit
\* cost, where the code takes the quantity drawn.
FragmentWholeLotBasis(head, qty, asset, sell_date, sell_value_per_qty) ==
    TransactionRecord(asset, qty, head[1], sell_date,
                      DecMul(qty, sell_value_per_qty),
                      DecMul(head[2], head[3]))

\* The record on_sell appends for qty units drawn from the lot head.
Fragment(head, qty, asset, sell_date, sell_value_per_qty) ==
    TransactionRecord(asset, qty, head[1], sell_date,
                      DecMul(qty, sell_value_per_qty), DecMul(qty, head[3]))

RECURSIVE SellLoop(_, _, _, _, _, _)
\* The rest of on_sell's loop after the pass m over the head of queue.
SellNext(m, queue, gains, asset, sell_date, sell_value_per_qty) ==
    SellLoop(m.head \o Tail(queue), m.quantity,
             Append(gains, Fragment(queue[1], m.qty, asset, sell_date,
                                    sell_value_per_qty)),
             asset, sell_date, sell_value_per_qty)

\* on_sell's while loop; queue[0] on an empty list raises IndexError.
SellLoop(queue, quantity, gains, asset, sell_date, sell_value_per_qty) ==
    IF ~(quantity > 0)
    THEN [queue |-> queue, gains |-> gains, raised |-> "none"]
    ELSE IF queue = <<>>
    THEN [queue |-> queue, gains |-> gains, raised |-> "IndexError"]
    ELSE SellNext(MatchHead(queue[1], quantity), queue, gains, asset,
                  sell_date, sell_value_per_qty)

\* What on_sell leaves and returns once its loop has ended as r: the list
\* the loop popped from is the one held in the dict, and the records are
\* returned only if nothing was raised.
SellResult(qs, asset, r) ==
    [queues |-> [qs EXCEPT ![asset] = r.queue],
     gains |-> IF r.raised = "none" THEN r.gains ELSE <<>>,
     raised |-> r.raised]

\* on_sell drawing from the back of the list (queue[-1], pop()).
OnSellNewestFirst(qs, ts, asset, quantity, total) ==
    IF quantity = 0
    THEN [queues |-> qs, gains |-> <<>>, raised |-> DivError(total)]
    ELSE IF asset \notin DOMAIN qs
    THEN [queues |-> qs, gains |-> <<>>, raised |-> "KeyError"]
    ELSE LET Reverse(q) == [i \in 1..Len(q) |-> q[Len(q) + 1 - i]]
             r == SellLoop(Reverse(qs[asset]), quantity, <<>>, asset, ts,
                           DecDiv(total, quantity))
         IN SellResult(qs, asset, [r EXCEPT !.queue = Reverse(@)])

\* on_sell: the dict after the call, the records returned and the exception
\* raised.
OnSell(qs, ts, asset, quantity, total) ==
    IF quantity = 0
    THEN [queues |-> qs, gains |-> <<>>, raised |-> DivError(total)]
    ELSE IF asset \notin DOMAIN qs
    THEN [queues |-> qs, gains |-> <<>>, raised |-> "KeyError"]
    ELSE SellResult(qs, asset,
                    SellLoop(qs[asset], quantity, <<>>, asset, ts,
                             DecDiv(total, quantity)))

\* on_income without the call of on_buy.
OnIncomeNoLot(qs, income, ts, asset, quantity, total) ==
    [queues |-> qs,
     other_income |-> Append(income, <<ts, asset, quantity, total>>),
     raised |-> IF quantity = 0 THEN DivError(total) ELSE "none"]

\* on_income: the event is appended, then on_buy is called.
OnIncome(qs, income, ts, asset, quantity, total) ==
    [other_income |-> Append(income, <<ts, asset, quantity, total>>)]
        @@ OnBuy(qs, ts, asset, quantity, total)

\* on_convert once its sell leg has ended as s without raising and its buy
\* leg as b.
ConvertResult(profits, s, b) ==
    [queues |-> b.queues, total_profits |-> profits \o s.gains,
     gains |-> s.gains, sold |-> s.queues, sell_raised |-> "none",
     raised |-> b.raised]

\* on_convert with the sell leg's exception caught, so that the buy leg runs.
ConvertBuyLegAnyway(profits, s, ts, tgt_asset, tgt_quantity, tgt_basis) ==
    [ConvertResult(profits, s, OnBuy(s.queues, ts, tgt_asset, tgt_quantity, tgt_basis))
        EXCEPT !.sell_raised = s.raised,
               !.raised = IF s.raised # "none" THEN s.raised ELSE @]

\* on_convert after its sell leg has ended as s: an exception of on_sell
\* leaves on_convert; otherwise the records are added and on_buy is called.
ConvertBuyLeg(profits, s, ts, tgt_asset, tgt_quantity, tgt_basis) ==
    IF s.raised # "none"
    THEN [queues |-> s.queues, total_profits |-> profits, gains |-> <<>>,
          sold |-> s.queues, sell_raised |-> s.raised, raised |-> s.raised]
    ELSE ConvertResult(profits, s,
                       OnBuy(s.queues, ts, tgt_asset, tgt_quantity, tgt_basis))

\* on_convert handing the proceeds to on_buy as the target's basis.
OnConvertBasisFromProceeds(qs, profits, ts, src_asset, src_quantity, proceeds, tgt_asset, tgt_quantity, tgt_basis) ==
    ConvertBuyLeg(profits, OnSell(qs, ts, src_asset, src_quantity, proceeds),
                  ts, tgt_asset, tgt_quantity, proceeds)

\* on_convert; sold is the dict as the sell leg left it.
OnConvert(qs, profits, ts, src_asset, src_quantity, proceeds, tgt_asset, tgt_quantity, tgt_basis) ==
    ConvertBuyLeg(profits, OnSell(qs, ts, src_asset, src_quantity, proceeds),
                  ts, tgt_asset, tgt_quantity, tgt_basis)

----------------------------------------------------------------------------
\* The run: main's loop over the rows, sorted by timestamp.

NoCall ==
    [op |-> "none", ts |-> 0, asset |-> "A", quantity |-> 0, total |-> 0,
     tgt_asset |-> "A", tgt_quantity |-> 0, tgt_basis |-> 0,
     raised |-> "none", sell_raised |-> "none", gains |-> <<>>,
     queues |-> <<>>, sold |-> <<>>, total_profits |-> <<>>,
     other_income |-> <<>>]

\* The record of a call made in the current state.
Call(op, ts, asset, quantity, total) ==
    [NoCall EXCEPT !.op = op, !.ts = ts, !.asset = asset,
                   !.quantity = quantity, !.total = total,
                   !.queues = queues, !.sold = queues,
                   !.total_profits = total_profits,
                   !.other_income = other_income]

Init ==
    /\ vv \in Verbosity
    /\ csv \in Files
    /\ queues = <<>>
    /\ total_profits = <<>>
    /\ other_income = <<>>
    /\ clock = 0
    /\ ntxn = 0
    /\ pc = "dispatch"
    /\ last = NoCall
    /\ acquired = [a \in Assets |-> 0]
    /\ disposed = [a \in Assets |-> 0]
    /\ report = <<>>
    /\ frame = <<>>

\* Row without txns.sort: the rows come in the order of the file.
RowInFileOrder(ts, raised) ==
    /\ pc = "dispatch"
    /\ ntxn < MaxTxns
    /\ clock' = ts
    /\ ntxn' = ntxn + 1
    /\ pc' = IF raised = "none" THEN "dispatch" ELSE "error"
    /\ UNCHANGED <<vv, csv, report, frame>>

\* txns.sort(key=timestamp), then "for txn in txns": the next row is not
\* older than the last one, and an exception ends the run.
Row(ts, raised) ==
    /\ pc = "dispatch"
    /\ ntxn < MaxTxns
    /\ ts >= clock
    /\ clock' = ts
    /\ ntxn' = ntxn + 1
    /\ pc' = IF raised = "none" THEN "dispatch" ELSE "error"
    /\ UNCHANGED <<vv, csv, report, frame>>

\* A file that lists its rows holds the row (ts, quantity, amount).
Listed(ts, quantity, amount) ==
    "rows" \in DOMAIN csv => <<ts, quantity, amount>> \in csv.rows

\* The row's effect on the ghost sums: quantity acquired, quantity disposed.
Acquire(ok, asset, quantity) ==
    IF ok THEN [acquired EXCEPT ![Upper(asset)] = @ + quantity] ELSE acquired

Dispose(ok, asset, quantity) ==
    IF ok THEN [disposed EXCEPT ![Upper(asset)] = @ + quantity] ELSE disposed

\* on_buy(txn.timestamp, txn.asset, txn.quantity, total) has ended as r.
BuyRow(ts, asset, quantity, total, r) ==
    /\ Row(ts, r.raised)
    /\ queues' = r.queues
    /\ last' = [Call("buy", ts, asset, quantity, total)
                  EXCEPT !.raised = r.raised]
    /\ acquired' = Acquire(r.raised = "none", asset, quantity)
    /\ UNCHANGED <<total_profits, other_income, disposed>>

\* "buy" with a total, and "receive": on_buy
Buy ==
    \E ts \in csv.days, asset \in csv.assets, quantity \in csv.quantities,
       total \in csv.totals :
        /\ Listed(ts, quantity, total)
        /\ BuyRow(ts, asset, quantity, total,
                  OnBuy(queues, ts, asset, quantity, total))

\* gains = on_sell(...) has ended as r; total_profits.extend(gains)
SellRow(ts, asset, quantity, total, r) ==
    /\ Row(ts, r.raised)
    /\ queues' = r.queues
    /\ total_profits' = IF r.raised = "none"
                        THEN total_profits \o r.gains
                        ELSE total_profits
    /\ last' = [Call("sell", ts, asset, quantity, total)
                  EXCEPT !.raised = r.raised, !.sell_raised = r.raised,
                         !.gains = r.gains, !.sold = r.queues]
    /\ disposed' = Dispose(r.raised = "none", asset, quantity)
    /\ UNCHANGED <<other_income, acquired>>

\* "paid", "send" and "sell": on_sell, then total_profits.extend(gains)
Sell ==
    \E ts \in csv.days, asset \in csv.assets, quantity \in csv.quantities,
       total \in csv.totals :
        /\ Listed(ts, quantity, total)
        /\ SellRow(ts, asset, quantity, total,
                   OnSell(queues, ts, asset, quantity, total))

\* on_income(txn.timestamp, txn.asset, txn.quantity, total) has ended as r.
IncomeRow(ts, asset, quantity, total, r) ==
    /\ Row(ts, r.raised)
    /\ queues' = r.queues
    /\ other_income' = r.other_income
    /\ last' = [Call("income", ts, asset, quantity, total)
                  EXCEPT !.raised = r.raised]
    /\ acquired' = Acquire(r.raised = "none", asset, quantity)
    /\ UNCHANGED <<total_profits, disposed>>

\* on_income with calculated_value = txn.quantity * txn.spotprice
IncomeOf(ts, asset, quantity, calculated_value) ==
    IncomeRow(ts, asset, quantity, calculated_value,
              OnIncome(queues, other_income, ts, asset, quantity,
                       calculated_value))

\* zero-value "buy", "coinbase earn" and "rewards income": on_income
Income ==
    \E ts \in csv.days, asset \in csv.assets, quantity \in csv.quantities,
       spotprice \in csv.totals :
        /\ Listed(ts, quantity, spotprice)
        /\ IncomeOf(ts, asset, quantity, DecMul(quantity, spotprice))

\* on_convert(...) has ended as r.
ConvertRow(ts, asset, quantity, total, tgt_asset, tgt_quantity, subtotal, r) ==
    /\ Row(ts, r.raised)
    /\ queues' = r.queues
    /\ total_profits' = r.total_profits
    /\ last' = [Call("convert", ts, asset, quantity, total)
                  EXCEPT !.tgt_asset = tgt_asset,
                         !.tgt_quantity = tgt_quantity,
                         !.tgt_basis = subtotal,
                         !.raised = r.raised,
                         !.sell_raised = r.sell_raised,
                         !.gains = r.gains, !.sold = r.sold]
    /\ disposed' = Dispose(r.sell_raised = "none", asset, quantity)
    /\ acquired' = Acquire(r.raised = "none", tgt_asset, tgt_quantity)
    /\ UNCHANGED other_income

\* "convert": the target asset and quantity come from the notes column.
Convert ==
    \E ts \in csv.days, asset \in csv.assets, quantity \in csv.quantities,
       total \in csv.totals, tgt_asset \in csv.targets,
       tgt_quantity \in csv.tgt_quantities, subtotal \in csv.totals :
        /\ Listed(ts, quantity, total)
        /\ Listed(ts, quantity, subtotal)
        /\ ConvertRow(ts, asset, quantity, total, tgt_asset, tgt_quantity,
                      subtotal,
                      OnConvert(queues, total_profits, ts, asset, quantity,
                                total, tgt_asset, tgt_quantity, subtotal))

\* datetime.year: days count from 1 January of year 0, and no year in reach
\* has a leap day.
YearOf(ts) == ts \div 365

\* The years -y can name: "all" (None, the empty tuple here) or one year.
Years == {<<>>} \cup {<<YearOf(ts)>> : ts \in csv.days}

\* year is None or ts.year == year
InYear(year, ts) == year = <<>> \/ YearOf(ts) = year[1]

\* sum(values): 0 + values[0] + values[1] + ... in the decimal context
RECURSIVE SumFrom(_, _)
SumFrom(acc, values) ==
    IF values = <<>> THEN acc
    ELSE SumFrom(DecAdd(acc, values[1]), Tail(values))

\* sum([x[1] for x in queue])
Balance(queue) == SumFrom(0, [i \in 1..Len(queue) |-> queue[i][2]])

\* [x.gain for x in txns]
GainsOf(txns) == [i \in 1..Len(txns) |-> txns[i].gain]

\* [x[3] for x in events]
ValuesOf(events) == [i \in 1..Len(events) |-> events[i][4]]

\* The report of txns, the records print_reports has selected, and events,
\* the income events it has selected.
ReportOf(qs, year, txns, events) ==
    [year |-> year,
     balances |-> [a \in DOMAIN qs |-> Balance(qs[a])],
     txns |-> txns, netgain |-> SumFrom(0, GainsOf(txns)),
     income |-> events, total |-> SumFrom(0, ValuesOf(events))]

\* PrintReports with the records selected by the year they were acquired in.
PrintReportsByYearAcquired(qs, profits, income, year) ==
    ReportOf(qs, year,
             SelectSeq(profits, LAMBDA x : InYear(year, x.acq_date)),
             SelectSeq(income, LAMBDA x : InYear(year, x[1])))

\* print_reports(year): the balances, the records sold in the year with
\* their net gain, and the income events of the year with their total.
PrintReports(qs, profits, income, year) ==
    ReportOf(qs, year,
             SelectSeq(profits, LAMBDA x : InYear(year, x.sell_date)),
             SelectSeq(income, LAMBDA x : InYear(year, x[1])))

\* The loop over the rows has ended: print_reports(year)
Report ==
    \E year \in Years :
        /\ pc = "dispatch"
        /\ pc' = "done"
        /\ report' = PrintReports(queues, total_profits, other_income, year)
        /\ last' = Call("report", clock, "A", 0, 0)
        /\ UNCHANGED <<vv, queues, total_profits, other_income, csv, clock,
                       ntxn, acquired, disposed, frame>>

Next == Buy \/ Sell \/ Income \/ Convert \/ Report

Spec == Init /\ [][Next]_vars

----------------------------------------------------------------------------
\* on_sell pass by pass: main's loop over the rows with the while loop of
\* on_sell taken one pass at a time.

\* main calls on_sell: total / quantity and queues[asset] may raise, and
\* otherwise the loop is entered.
SellCall ==
    \E ts \in csv.days, asset \in csv.assets, quantity \in csv.quantities,
       total \in csv.totals :
        /\ Listed(ts, quantity, total)
        /\ pc = "dispatch"
        /\ ntxn < MaxTxns
        /\ ts >= clock
        /\ clock' = ts
        /\ ntxn' = ntxn + 1
        /\ IF quantity = 0 \/ asset \notin DOMAIN queues
           THEN /\ pc' = "error"
                /\ frame' = <<>>
                /\ last' = [Call("sell", ts, asset, quantity, total)
                              EXCEPT !.raised = OnSell(queues, ts, asset,
                                                       quantity, total).raised,
                                     !.sell_raised = @]
           ELSE /\ pc' = "loop"
                /\ frame' = [asset |-> asset, sell_date |-> ts,
                             quantity |-> quantity, gains |-> <<>>,
                             sell_value_per_qty |-> DecDiv(total, quantity)]
                /\ last' = Call("sell", ts, asset, quantity, total)
        /\ UNCHANGED <<vv, queues, total_profits, other_income, csv,
                       acquired, disposed, report>>

\* The locals after the pass m over the lot head.
FrameAfter(m, head) ==
    [frame EXCEPT !.quantity = m.quantity,
                  !.gains = Append(@, Fragment(head, m.qty, frame.asset,
                                               frame.sell_date,
                                               frame.sell_value_per_qty))]

\* A pass of the loop that does nothing and comes back to its test.
SellPassIdle ==
    /\ pc = "loop"
    /\ frame.quantity > 0
    /\ UNCHANGED vars

\* One pass of "while quantity > 0" over a queue that holds a lot.
SellPass ==
    /\ pc = "loop"
    /\ frame.quantity > 0
    /\ queues[frame.asset] # <<>>
    /\ \E m \in {MatchHead(queues[frame.asset][1], frame.quantity)} :
          /\ queues' = [queues EXCEPT ![frame.asset] = m.head \o Tail(@)]
          /\ frame' = FrameAfter(m, queues[frame.asset][1])
    /\ UNCHANGED <<vv, total_profits, other_income, csv, clock, ntxn, pc,
                   last, acquired, disposed, report>>

\* queue[0] on the emptied list: IndexError leaves on_sell and main.
SellRaise ==
    /\ pc = "loop"
    /\ frame.quantity > 0
    /\ queues[frame.asset] = <<>>
    /\ pc' = "error"
    /\ frame' = <<>>
    /\ last' = [last EXCEPT !.raised = "IndexError",
                            !.sell_raised = "IndexError", !.sold = queues]
    /\ UNCHANGED <<vv, queues, total_profits, other_income, csv, clock, ntxn,
                   acquired, disposed, report>>

\* The loop's test fails: return gains, and main extends total_profits.
SellReturn ==
    /\ pc = "loop"
    /\ ~(frame.quantity > 0)
    /\ pc' = "dispatch"
    /\ frame' = <<>>
    /\ total_profits' = total_profits \o frame.gains
    /\ last' = [last EXCEPT !.gains = frame.gains, !.sold = queues]
    /\ disposed' = Dispose(TRUE, last.asset, last.quantity)
    /\ UNCHANGED <<vv, queues, other_income, csv, clock, ntxn, acquired,
                   report>>

\* A step of on_sell once its loop is entered.
SellStep == SellPass \/ SellRaise \/ SellReturn

\* "for txn in txns" has run out of rows.
EndOfRows ==
    /\ pc = "dispatch"
    /\ pc' = "end"
    /\ UNCHANGED <<vv, queues, total_profits, other_income, csv, clock, ntxn,
                   last, acquired, disposed, report, frame>>

NextLoop == Buy \/ SellCall \/ SellStep \/ EndOfRows

\* The interpreter runs the next statement for as long as there is one: a
\* loop of on_sell that was entered goes on, and the loop over the rows ends
\* once the rows have run out.
SpecLoop ==
    Init /\ [][NextLoop]_vars /\ WF_vars(SellStep) /\ WF_vars(EndOfRows)

----------------------------------------------------------------------------
\* TransactionRecord on its own: records built from dates on both sides of
\* the 52 weeks, for two settings of the arguments that are not dates.

TermAcquired == {0, 1}

TermSold == {0, Year, Year + 1, Year + 2}

TermOthers ==
    {[asset |-> "A", quantity |-> Qty(2), proceeds |-> Usd(10),
      basis |-> Usd(10)],
     [asset |-> "B", quantity |-> Qty(4), proceeds |-> Usd(12),
      basis |-> Usd(50)]}

InitTerm ==
    /\ vv = 0
    /\ csv = FifoFile
    /\ queues = <<>>
    /\ total_profits = <<>>
    /\ other_income = <<>>
    /\ clock = 0
    /\ ntxn = 0
    /\ pc = "dispatch"
    /\ last = NoCall
    /\ acquired = [a \in Assets |-> 0]
    /\ disposed = [a \in Assets |-> 0]
    /\ report = <<>>
    /\ frame = <<>>

\* TransactionRecord(asset, quantity, date_acquired, date_sold, sale_price,
\* acq_price), kept in total_profits.
Classify ==
    \E date_acquired \in TermAcquired, date_sold \in TermSold, o \in TermOthers :
        /\ ntxn < MaxTxns
        /\ ntxn' = ntxn + 1
        /\ total_profits' = Append(total_profits,
               TransactionRecord(o.asset, o.quantity, date_acquired, date_sold,
                                 o.proceeds, o.basis))
        /\ UNCHANGED <<vv, csv, queues, other_income, clock, pc, last,
                       acquired, disposed, report, frame>>

SpecTerm == InitTerm /\ [][Classify]_vars

----------------------------------------------------------------------------
\* Vocabulary of the properties

RECURSIVE SumQty(_)
SumQty(queue) ==
    IF queue = <<>> THEN 0 ELSE queue[1][2] + SumQty(Tail(queue))

RECURSIVE SumDrawn(_)
SumDrawn(gains) ==
    IF gains = <<>> THEN 0 ELSE gains[1].quantity + SumDrawn(Tail(gains))

RECURSIVE SumProceeds(_)
SumProceeds(gains) ==
    IF gains = <<>> THEN 0 ELSE gains[1].proceeds + SumProceeds(Tail(gains))

\* quantity * unit cost is a multiple of 1/Scale that fits the context's
\* precision, and it is the amount basis.
ExactProduct(quantity, cost, basis) ==
    /\ (quantity * (cost % Scale)) % Scale = 0
    /\ basis = quantity * (cost \div Scale) + (quantity * (cost % Scale)) \div Scale
    /\ RoundMag(basis, 0, 1) = basis

QueueOf(qs, a) == IF a \in DOMAIN qs THEN qs[a] ELSE <<>>

\* Every quantity of the input file is positive.
AllPositive == \A q \in csv.quantities \cup csv.tgt_quantities : q > 0

\* The last call disposed (on_sell, alone or as the sell leg of on_convert).
Disposal == last.op \in {"sell", "convert"}

DisposalOk == Disposal /\ last.sell_raised = "none"

DisposalFailed == Disposal /\ last.sell_raised # "none"

\* The disposed asset's queue before the last call, and as on_sell left it.
LotsBefore == QueueOf(last.queues, last.asset)

LotsAfter == QueueOf(last.sold, last.asset)

----------------------------------------------------------------------------
\* C1 Quantity conservation: when all quantities are positive and no disposal
\* has failed, each asset's remaining lot quantities sum to exactly what was
\* acquired minus what was disposed.
QuantityConservation ==
    (AllPositive /\ ~DisposalFailed) =>
        \A a \in Assets :
            SumQty(QueueOf(queues, a)) = acquired[a] - disposed[a]

\* A disposal split one lot and consumed another, leaving a remainder.
QuantityConservationWitness ==
    /\ AllPositive
    /\ DisposalOk
    /\ Len(last.gains) = 2
    /\ LotsAfter # <<>>
    /\ acquired[last.asset] - disposed[last.asset] > 0
    /\ disposed[last.asset] > 0

----------------------------------------------------------------------------
\* C2 FIFO order: a successful disposal emits its fragments in the order of
\* the queue; every lot before the last one drawn from is consumed whole and
\* removed, and what stays in the queue is the untouched tail, behind the
\* remainder of the last lot drawn from if it was only partly consumed.
FifoOrder ==
    DisposalOk =>
        LET pre == LotsBefore
            post == LotsAfter
            g == last.gains
            k == Len(g)
            tail == SubSeq(pre, k + 1, Len(pre))
        IN /\ k <= Len(pre)
           /\ \A i \in 1..k : g[i].acq_date = pre[i][1]
           /\ \A i \in 1..(k - 1) : g[i].quantity = pre[i][2]
           /\ k > 0 => g[k].quantity <= pre[k][2]
           /\ post = IF k > 0 /\ g[k].quantity < pre[k][2]
                     THEN << <<pre[k][1], pre[k][2] - g[k].quantity, pre[k][3]>> >>
                          \o tail
                     ELSE tail

\* A disposal over lots of different days: the older lot went whole, the
\* newer one in part.
FifoOrderWitness ==
    /\ DisposalOk
    /\ Len(LotsBefore) >= 2
    /\ LotsBefore[1][1] < LotsBefore[2][1]
    /\ Len(last.gains) = 2
    /\ Len(LotsAfter) = Len(LotsBefore) - 1

\* C3 Exact draw: a disposal of Q > 0 units from lots that hold at least Q
\* returns fragments that sum to Q and lowers the asset's total by Q.
ExactDraw ==
    (Disposal /\ last.quantity > 0 /\ SumQty(LotsBefore) >= last.quantity) =>
        /\ last.sell_raised = "none"
        /\ SumDrawn(last.gains) = last.quantity
        /\ SumQty(LotsAfter) = SumQty(LotsBefore) - last.quantity

\* A disposal of less than the lots held, over more than one lot.
ExactDrawWitness ==
    /\ Disposal
    /\ last.quantity > 0
    /\ SumQty(LotsBefore) > last.quantity
    /\ Len(last.gains) = 2

\* C4 Insufficient lots is an error: a disposal of more units than the
\* asset's lots hold raises, and adds no record to total_profits.
InsufficientLotsRaise ==
    (Disposal /\ last.quantity > 0 /\ SumQty(LotsBefore) < last.quantity) =>
        /\ last.sell_raised # "none"
        /\ pc = "error"
        /\ total_profits = last.total_profits

\* The same, over queues that hold lots of positive quantity only.
InsufficientLotsRaiseOverPositiveLots ==
    (\A i \in 1..Len(LotsBefore) : LotsBefore[i][2] > 0)
        => InsufficientLotsRaise

\* C5 Zero ledger mutation on insufficient lots: after a disposal of more
\* units than the asset's lots (all of positive quantity) hold, every queue
\* is as it was before the call.
FailedDisposalLeavesLedger ==
    (/\ Disposal
     /\ last.quantity > 0
     /\ \A i \in 1..Len(LotsBefore) : LotsBefore[i][2] > 0
     /\ SumQty(LotsBefore) < last.quantity) => queues = last.queues

\* C6 Conversion atomicity: when the sell leg of a conversion fails, no queue
\* is created, no queue but the source's changes and no queue gains a lot.
ConvertAtomicity ==
    (last.op = "convert" /\ last.sell_raised # "none") =>
        /\ last.raised # "none"
        /\ DOMAIN queues = DOMAIN last.queues
        /\ \A a \in DOMAIN queues :
              /\ a # last.asset => queues[a] = last.queues[a]
              /\ Len(queues[a]) <= Len(last.queues[a])

\* A conversion out of too few source lots, into an asset not seen before.
ConvertAtomicityWitness ==
    /\ last.op = "convert"
    /\ last.sell_raised = "IndexError"
    /\ last.quantity > 0
    /\ last.tgt_quantity > 0
    /\ Upper(last.tgt_asset) \notin DOMAIN last.queues

\* The scenario of C7: 1.0 A bought for $10 is converted for $12 into 0.5 B
\* with basis $12.
ConvertScenario ==
    /\ last.op = "convert"
    /\ last.queues = ("A" :> << <<0, Qty(2), Usd(10)>> >>)
    /\ last.asset = "A" /\ last.quantity = Qty(2) /\ last.total = Usd(12)
    /\ last.tgt_asset = "B" /\ last.tgt_quantity = Qty(1)
    /\ last.tgt_basis = Usd(12)

\* C7 Conversion is a sell followed by a buy: a successful on_convert appends
\* the records on_sell gives for the source, then one lot
\* (ts, tgt_quantity, tgt_basis / tgt_quantity) at the tail of the target's
\* queue, and no income event; in the scenario, one record with gain $2 and a
\* B lot of 0.5 at unit cost $24.
ConvertIsSellThenBuy ==
    (last.op = "convert" /\ last.raised = "none") =>
        LET s == OnSell(last.queues, last.ts, last.asset, last.quantity,
                        last.total)
            t == Upper(last.tgt_asset)
            lot == <<last.ts, last.tgt_quantity,
                     DecDiv(last.tgt_basis, last.tgt_quantity)>>
        IN /\ total_profits = last.total_profits \o s.gains
           /\ t \in DOMAIN queues
           /\ queues[t] = Append(QueueOf(s.queues, t), lot)
           /\ \A a \in DOMAIN queues \ {t} : queues[a] = QueueOf(s.queues, a)
           /\ other_income = last.other_income
           /\ ConvertScenario =>
                 /\ Len(total_profits) = Len(last.total_profits) + 1
                 /\ total_profits[Len(total_profits)].gain = Usd(2)
                 /\ queues["A"] = <<>>
                 /\ queues["B"] = << <<last.ts, Qty(1), Usd(24)>> >>

ConvertIsSellThenBuyWitness ==
    /\ ConvertScenario
    /\ last.raised = "none"
    /\ Len(total_profits) = 1

\* The scenario of C8: 1.0 unit received as income worth $50 on day 0 is
\* sold for $70 on day 1.
IncomeScenario ==
    /\ last.op = "sell"
    /\ last.other_income = << <<0, "A", Qty(2), Usd(50)>> >>
    /\ last.queues = ("A" :> << <<0, Qty(2), Usd(50)>> >>)
    /\ last.total_profits = <<>>
    /\ last.ts = 1 /\ last.asset = "A" /\ last.quantity = Qty(2)
    /\ last.total = Usd(70)

\* C8 Income sets basis: on_income with a positive quantity appends one
\* income event (ts, asset, quantity, usd_value) and one lot
\* (ts, quantity, usd_value / quantity) to the asset's queue and nothing
\* else; in the scenario the later sale gives one record with basis $50,
\* proceeds $70, gain $20, short term.
IncomeSetsBasis ==
    /\ (last.op = "income" /\ last.quantity > 0) =>
          /\ last.raised = "none"
          /\ other_income = Append(last.other_income,
                 <<last.ts, last.asset, last.quantity, last.total>>)
          /\ DOMAIN queues = DOMAIN last.queues \cup {last.asset}
          /\ queues[last.asset] = Append(LotsBefore,
                 <<last.ts, last.quantity, DecDiv(last.total, last.quantity)>>)
          /\ \A a \in DOMAIN queues \ {last.asset} : queues[a] = last.queues[a]
          /\ total_profits = last.total_profits
    /\ IncomeScenario =>
          /\ last.raised = "none"
          /\ Len(total_profits) = 1
          /\ total_profits[1].basis = Usd(50)
          /\ total_profits[1].proceeds = Usd(70)
          /\ total_profits[1].gain = Usd(20)
          /\ ~total_profits[1].islong
          /\ total_profits[1].acq_date = 0
          /\ total_profits[1].sell_date = 1

IncomeSetsBasisWitness ==
    /\ IncomeScenario
    /\ ntxn = 2
    /\ Len(total_profits) = 1

\* C9 Invalid quantity is rejected: on_buy or on_sell with a quantity that is
\* zero or negative raises and leaves the ledger as it was.
InvalidQuantityRejected ==
    (last.op \in {"buy", "sell"} /\ last.quantity <= 0) =>
        /\ last.raised # "none"
        /\ queues = last.queues

\* C10 No record from an invalid operation: a call that raises leaves
\* total_profits and other_income as they were before it.
FailedCallLeavesNoRecord ==
    last.raised # "none" =>
        /\ total_profits = last.total_profits
        /\ other_income = last.other_income

----------------------------------------------------------------------------
----------------------------------------------------------------------------
\* C12 Basis additivity: after a successful disposal of Q > 0 units for
\* proceeds P out of lots of positive quantity, the proceeds of the fragments
\* sum to exactly P and the basis of each fragment is exactly the quantity
\* drawn times the unit cost of its lot.
BasisAdditivity ==
    (AllPositive /\ DisposalOk /\ last.quantity > 0) =>
        /\ SumProceeds(last.gains) = last.total
        /\ \A i \in 1..Len(last.gains) :
              ExactProduct(last.gains[i].quantity, LotsBefore[i][3],
                           last.gains[i].basis)

----------------------------------------------------------------------------
\* The number of places of seq that hold x and whose timestamp At(x) is in
\* the year y (any year when y is the empty tuple).
CountIn(seq, x, y, At(_)) ==
    Cardinality({i \in 1..Len(seq) :
                    seq[i] = x /\ (y = <<>> \/ At(x) \div 365 = y[1])})

SoldAt(txn) == txn.sell_date

ReceivedAt(event) == event[1]

Range(seq) == {seq[i] : i \in 1..Len(seq)}

\* C13 Year filter: the report of year y holds exactly the records sold in y
\* and the income events received in y, and every record and event when the
\* year is "all"; its net gain is the sum of the gains of the records it
\* holds and its income total the sum of the values of the events it holds;
\* printing it leaves the queues, total_profits and other_income as they
\* were.
YearFilter ==
    pc = "done" =>
        /\ \A x \in Range(total_profits) \cup Range(report.txns) :
              CountIn(report.txns, x, <<>>, SoldAt)
                  = CountIn(total_profits, x, report.year, SoldAt)
        /\ \A x \in Range(other_income) \cup Range(report.income) :
              CountIn(report.income, x, <<>>, ReceivedAt)
                  = CountIn(other_income, x, report.year, ReceivedAt)
        /\ report.year = <<>> =>
              report.txns = total_profits /\ report.income = other_income
        /\ report.netgain = SumFrom(0, GainsOf(report.txns))
        /\ report.total = SumFrom(0, ValuesOf(report.income))
        /\ last.op = "report"
        /\ queues = last.queues
        /\ total_profits = last.total_profits
        /\ other_income = last.other_income

\* The report of year 1 over a sale in year 0 with gain $7 and a sale in
\* year 1 with gain $45, both out of a lot bought in year 0.
YearFilterWitness ==
    /\ pc = "done"
    /\ report.year = <<1>>
    /\ Len(total_profits) = 2
    /\ total_profits[1].gain = Usd(7)
    /\ report.txns = <<total_profits[2]>>
    /\ report.netgain = Usd(45)

----------------------------------------------------------------------------
\* C14 No exhausted lot persists: when the quantities of the file are
\* positive, every lot in every queue has a positive quantity, and a
\* disposal that draws the whole of a lot leaves the queue without it.
NoExhaustedLot ==
    AllPositive =>
        /\ \A a \in DOMAIN queues : \A i \in 1..Len(queues[a]) :
              queues[a][i][2] > 0
        /\ (/\ DisposalOk
            /\ last.gains # <<>>
            /\ last.gains[Len(last.gains)].quantity
                  = LotsBefore[Len(last.gains)][2])
              => Len(LotsAfter) = Len(LotsBefore) - Len(last.gains)

\* A disposal of exactly the quantity of the head lot, with a newer lot
\* behind it.
NoExhaustedLotWitness ==
    /\ AllPositive
    /\ DisposalOk
    /\ Len(LotsBefore) = 2
    /\ last.quantity = LotsBefore[1][2]
    /\ Len(last.gains) = 1
    /\ LotsAfter = Tail(LotsBefore)

----------------------------------------------------------------------------
\* C15 Lot ordering: with the rows processed in the order of their
\* timestamps, the lots of every queue are in non-decreasing order of their
\* acquisition timestamps; a lot consumed in part stays at the head with its
\* timestamp, and a successful acquisition leaves the lots that were there
\* in their places, with the new lot behind them.
LotOrdering ==
    /\ \A a \in DOMAIN queues : \A i, j \in 1..Len(queues[a]) :
          i < j => queues[a][i][1] <= queues[a][j][1]
    /\ (DisposalOk /\ Len(LotsAfter) + Len(last.gains) > Len(LotsBefore)) =>
          /\ LotsAfter[1][1] = LotsBefore[Len(last.gains)][1]
          /\ Tail(LotsAfter) = SubSeq(LotsBefore, Len(last.gains) + 1,
                                      Len(LotsBefore))
    /\ (last.op \in {"buy", "income"} /\ last.raised = "none") =>
          /\ Len(queues[last.asset]) = Len(LotsBefore) + 1
          /\ SubSeq(queues[last.asset], 1, Len(LotsBefore)) = LotsBefore
          /\ queues[last.asset][Len(LotsBefore) + 1][1] = last.ts

\* A lot of day 0 consumed in part on day 1, ahead of a lot of day 1.
LotOrderingWitness ==
    /\ DisposalOk
    /\ Len(LotsBefore) = 2
    /\ Len(LotsAfter) = 2
    /\ LotsAfter[1][1] < LotsAfter[2][1]
    /\ LotsAfter[1][2] < LotsBefore[1][2]

----------------------------------------------------------------------------
\* The scenario of C16: 1.0 unit bought for $100 on day 0 and 2.0 units for
\* $400 on day 10; 2.5 units are sold for $1000 on day 400.
SplitScenario ==
    /\ last.op = "sell"
    /\ last.queues = ("A" :> << <<0, Qty(2), Usd(100)>>,
                                <<10, Qty(4), Usd(200)>> >>)
    /\ last.ts = 400 /\ last.asset = "A" /\ last.quantity = Qty(5)
    /\ last.total = Usd(1000)

\* C16 One record per fragment, priced from the aggregate: a successful
\* disposal of Q > 0 units for P returns one record for each lot it drew
\* from, as many as it takes for the lots to hold Q; the record carries the
\* asset, the quantity drawn, the lot's acquisition date, the disposal date,
\* proceeds = quantity * (P / Q), basis = quantity * the lot's unit cost and
\* gain = proceeds - basis.  The scenario gives (1.0, basis $100, proceeds
\* $400) and (1.5, basis $300, proceeds $600), both long term.
RecordPerFragment ==
    /\ (DisposalOk /\ last.quantity > 0) =>
          LET g == last.gains
              k == Len(g)
          IN /\ k >= 1
             /\ k <= Len(LotsBefore)
             /\ SumQty(SubSeq(LotsBefore, 1, k)) >= last.quantity
             /\ SumQty(SubSeq(LotsBefore, 1, k - 1)) < last.quantity
             /\ \A i \in 1..k :
                   /\ g[i].asset = last.asset
                   /\ g[i].quantity =
                         IF i < k THEN LotsBefore[i][2]
                         ELSE last.quantity
                                - SumQty(SubSeq(LotsBefore, 1, k - 1))
                   /\ g[i].acq_date = LotsBefore[i][1]
                   /\ g[i].sell_date = last.ts
                   /\ g[i].proceeds =
                         DecMul(g[i].quantity,
                                DecDiv(last.total, last.quantity))
                   /\ g[i].basis = DecMul(g[i].quantity, LotsBefore[i][3])
                   /\ g[i].gain = DecSub(g[i].proceeds, g[i].basis)
    /\ SplitScenario =>
          /\ last.raised = "none"
          /\ Len(last.gains) = 2
          /\ last.gains[1].quantity = Qty(2)
          /\ last.gains[1].basis = Usd(100)
          /\ last.gains[1].proceeds = Usd(400)
          /\ last.gains[1].islong
          /\ last.gains[2].quantity = Qty(3)
          /\ last.gains[2].basis = Usd(300)
          /\ last.gains[2].proceeds = Usd(600)
          /\ last.gains[2].islong
          /\ total_profits = last.gains

RecordPerFragmentWitness ==
    /\ SplitScenario
    /\ ntxn = 3
    /\ Len(total_profits) = 2
    /\ queues["A"] = << <<10, Qty(1), Usd(200)>> >>

----------------------------------------------------------------------------
\* C17 Acquire on an unseen asset under case normalization: an acquisition
\* of a positive quantity, the buy leg of a conversion with its target in
\* any letter case included, succeeds whether or not the asset was seen
\* before and appends its lot to the queue keyed by the upper-case symbol;
\* every key of the ledger is an upper-case symbol.
AcquireCaseNormalized ==
    /\ DOMAIN queues \subseteq Assets
    /\ (last.op \in {"buy", "income"} /\ last.quantity > 0) =>
          /\ last.raised = "none"
          /\ Upper(last.asset) \in DOMAIN queues
          /\ queues[Upper(last.asset)] # <<>>
    /\ (/\ last.op = "convert"
        /\ last.sell_raised = "none"
        /\ last.tgt_quantity > 0) =>
          /\ last.raised = "none"
          /\ Upper(last.tgt_asset) \in DOMAIN queues
          /\ queues[Upper(last.tgt_asset)] # <<>>

----------------------------------------------------------------------------
\* The disposal that has just returned left what on_sell leaves when taken
\* as one step.
LoopAgreesWithOnSell ==
    (last.op = "sell" /\ pc # "loop") =>
        (LET r == OnSell(last.queues, last.ts, last.asset, last.quantity,
                        last.total)
         IN /\ r.raised = last.raised
            /\ r.queues = queues
            /\ r.gains = last.gains)

\* C18 Termination: the loop of on_sell, once entered, is left again, by a
\* return or by an error, and the run over the rows of the file comes to its
\* end or to an error.
SellLoopEnds ==
    /\ [](pc = "loop" => <>(pc # "loop"))
    /\ <>(pc \in {"end", "error"})

\* on_sell has returned after two passes of its loop.
SellLoopEndsWitness ==
    /\ pc = "dispatch"
    /\ last.op = "sell"
    /\ last.raised = "none"
    /\ Len(last.gains) = 2
    /\ total_profits = last.total_profits \o last.gains

----------------------------------------------------------------------------
\* The rows main may process next: an acquisition, an income or a disposal.
NextCalls ==
    [op : {"buy", "income", "sell"}, ts : {t \in csv.days : t >= clock},
     asset : csv.assets, quantity : csv.quantities, total : csv.totals]

\* The queues and the collections as the call c leaves them, and whether
\* every call so far has returned.
AfterCall(s, c, b, e, g) ==
    [queues |-> IF c.op = "buy" THEN b.queues
                ELSE IF c.op = "income" THEN e.queues ELSE g.queues,
     total_profits |-> IF c.op = "sell" /\ g.raised = "none"
                       THEN s.total_profits \o g.gains ELSE s.total_profits,
     other_income |-> IF c.op = "income" THEN e.other_income
                      ELSE s.other_income,
     ok |-> /\ s.ok
            /\ "none" = IF c.op = "buy" THEN b.raised
                        ELSE IF c.op = "income" THEN e.raised ELSE g.raised]

After(s, c) ==
    AfterCall(s, c,
              OnBuy(s.queues, c.ts, c.asset, c.quantity, c.total),
              OnIncome(s.queues, s.other_income, c.ts, c.asset, c.quantity,
                       c.total),
              OnSell(s.queues, c.ts, c.asset, c.quantity, c.total))

Here ==
    [queues |-> queues, total_profits |-> total_profits,
     other_income |-> other_income, ok |-> TRUE]

RecordsOf(profits, a) == SelectSeq(profits, LAMBDA x : x.asset = a)

\* The two states hold the same queues and, asset by asset, the same records.
SamePerAsset(s, t) ==
    /\ s.ok = t.ok
    /\ s.queues = t.queues
    /\ \A a \in Assets :
          RecordsOf(s.total_profits, a) = RecordsOf(t.total_profits, a)

\* C19 Cross-asset independence: on_buy, on_income and on_sell on one asset
\* leave the queue of every other asset as it was; on_buy and on_sell leave
\* other_income as it was, and on_buy and on_income leave total_profits as
\* it was; two calls on different assets that both return give the same
\* queues and, per asset, the same records in either order.
CrossAssetIndependence ==
    /\ last.op \in {"buy", "income", "sell"} =>
          /\ DOMAIN queues \subseteq DOMAIN last.queues \cup {last.asset}
          /\ \A a \in DOMAIN last.queues \ {last.asset} :
                queues[a] = last.queues[a]
    /\ last.op \in {"buy", "sell"} => other_income = last.other_income
    /\ last.op \in {"buy", "income"} => total_profits = last.total_profits
    /\ (pc = "dispatch" /\ ntxn + 2 <= MaxTxns) =>
          \A c \in NextCalls, d \in NextCalls :
              (c.asset # d.asset /\ After(After(Here, c), d).ok) =>
                  SamePerAsset(After(After(Here, c), d),
                               After(After(Here, d), c))

\* A disposal of B while A holds a lot that came as income.
CrossAssetIndependenceWitness ==
    /\ last.op = "sell"
    /\ last.asset = "B"
    /\ last.raised = "none"
    /\ last.gains # <<>>
    /\ QueueOf(queues, "A") # <<>>
    /\ other_income # <<>>

----------------------------------------------------------------------------
\* C20 No negative holding period: with the rows processed in the order of
\* their timestamps, no record of total_profits was sold before it was
\* acquired, and the records stand in non-decreasing order of their
\* disposal dates.
NoNegativeHolding ==
    /\ \A i \in 1..Len(total_profits) :
          total_profits[i].acq_date <= total_profits[i].sell_date
    /\ \A i, j \in 1..Len(total_profits) :
          i < j => total_profits[i].sell_date <= total_profits[j].sell_date

\* Records of two disposals on different days, the later one of a lot held
\* since an earlier day.
NoNegativeHoldingWitness ==
    /\ Len(total_profits) >= 2
    /\ total_profits[1].sell_date < total_profits[Len(total_profits)].sell_date
    /\ \E i \in 1..Len(total_profits) :
          total_profits[i].acq_date < total_profits[i].sell_date

====
